---- MODULE Spec2Model ----
(***************************************************************************)
(* A model of lib/neural-network.js: the NeuralNetwork object, its train   *)
(* loop, its evaluation (test), and its serializer (toJSON, fromJSON,      *)
(* toFunction).                                                            *)
(*                                                                         *)
(* Numbers.  A JavaScript number x is held as the integer x * One (fixed   *)
(* point, three decimals), so that every literal of the source (0.3, 0.1,  *)
(* 0.5, 0.005, 0.4, 0.2) is exact.  Products and quotients round toward    *)
(* minus infinity.  The logistic function is held as the piecewise linear  *)
(* curve through (0, 0.5) with slope 1/4, clamped to [0, 1].               *)
(* A value that may be NaN or undefined is held as a sequence of length    *)
(* zero (NaN / undefined) or one (the number).                             *)
(*                                                                         *)
(* Arrays are functions on 0 .. n-1, as in the source.  Objects are        *)
(* sequences of <<key, value>> pairs in insertion order; keys are strings. *)
(***************************************************************************)
EXTENDS Integers, Sequences, FiniteSets, TLC

One == 1000

(***************************************************************************)
(* Bounds of the model.                                                    *)
(***************************************************************************)
MaxOps == 2

(***************************************************************************)
(* Literals of the source.                                                 *)
(***************************************************************************)
DefaultLearningRate == 300
DefaultMomentum == 100
DefaultBinaryThresh == 500
DefaultIterations == 20000
DefaultErrorThresh == 5
DefaultLogPeriod == 10
DefaultCallbackPeriod == 10
MinHiddenSize == 3
RandomSpan == 400
RandomOffset == 200

(***************************************************************************)
(* JavaScript helpers.                                                     *)
(***************************************************************************)
\* a || b on numbers: 0 is falsy
OrElse(a, b) == IF a # 0 THEN a ELSE b

Length(a) == Cardinality(DOMAIN a)

Arr(seq) == [i \in 0..(Len(seq) - 1) |-> seq[i + 1]]

Max2(a, b) == IF a >= b THEN a ELSE b

Mul(a, b) == (a * b) \div One

\* numeric property names of arrays and objects are strings
Digits == <<"0", "1", "2", "3", "4", "5">>

IntKey(i) == Digits[i + 1]

IsIntKey(k) == \E i \in 1..Len(Digits) : Digits[i] = k

KeyIndex(k) == (CHOOSE i \in 1..Len(Digits) : Digits[i] = k) - 1

\* Object.keys(obj)
Keys(obj) == [i \in 1..Len(obj) |-> obj[i][1]]

HasKey(obj, k) == \E i \in 1..Len(obj) : obj[i][1] = k

\* obj[k] of a key that is present
Get(obj, k) == obj[CHOOSE i \in 1..Len(obj) : obj[i][1] = k][2]

RECURSIVE SumTo(_, _)
\* sum of f[0] .. f[n-1]
SumTo(f, n) == IF n <= 0 THEN 0 ELSE SumTo(f, n - 1) + f[n - 1]

zeros(size) == [i \in 0..(size - 1) |-> 0]

\* Math.random() * 0.4 - 0.2, the draw r being Math.random() * One in 0 .. One-1
randomWeight(r) == Mul(r, RandomSpan) - RandomOffset

\* Math.random(): the stream of draws is a nondeterministic choice, named by seed
Random(seed, layer, node, k) ==
  IF seed = 0 THEN 500 ELSE (seed * 389 + layer * 271 + node * 173 + k * 97) % One

\* randos(size) for the array numbered (layer, node); node = -1 is the bias array
randos(size, seed, layer, node) ==
  [i \in 0..(size - 1) |-> randomWeight(Random(seed, layer, node + 1, i))]

mse(errors) == SumTo([i \in DOMAIN errors |-> Mul(errors[i], errors[i])], Length(errors))
                 \div Length(errors)

Sigmoid(sum) ==
  IF sum <= -2 * One THEN 0
  ELSE IF sum >= 2 * One THEN One
  ELSE (One \div 2) + (sum \div 4)

(***************************************************************************)
(* The NeuralNetwork object.  none = <<>> stands for null / undefined in   *)
(* the fields that hold arrays; inputLookup and outputLookup are <<>> when *)
(* absent and <<table>> when present.                                      *)
(***************************************************************************)
NeuralNetwork(options) ==
  [ learningRate |-> OrElse(options.learningRate, DefaultLearningRate),
    momentum     |-> OrElse(options.momentum, DefaultMomentum),
    hiddenSizes  |-> options.hiddenLayers,
    binaryThresh |-> OrElse(options.binaryThresh, DefaultBinaryThresh),
    allocated    |-> FALSE,
    sizes        |-> <<>>,
    outputLayer  |-> -1,
    biases       |-> <<>>,
    weights      |-> <<>>,
    outputs      |-> <<>>,
    deltas       |-> <<>>,
    changes      |-> <<>>,
    errors       |-> <<>>,
    inputLookup  |-> <<>>,
    outputLookup |-> <<>> ]

\* the "keep" arrays of initialize: entries of old outside 1..L stay
KeptBiases(n, sizes, L, seed) ==
  [l \in (1..L) \cup DOMAIN n.biases |->
     IF l \in 1..L THEN randos(sizes[l], seed, l, -1) ELSE n.biases[l]]

initialize(n, sizes, keepNetworkIntact, seed) ==
  LET L == Length(sizes) - 1
  IN [n EXCEPT
       !.sizes = sizes,
       !.outputLayer = L,
       !.allocated = TRUE,
       !.deltas = [l \in 0..L |-> zeros(sizes[l])],
       !.errors = [l \in 0..L |-> zeros(sizes[l])],
       !.changes = [l \in 1..L |-> [node \in 0..(sizes[l] - 1) |-> zeros(sizes[l - 1])]],
       !.outputs = IF keepNetworkIntact THEN n.outputs
                   ELSE [l \in 0..L |-> zeros(sizes[l])],
       !.biases = IF keepNetworkIntact THEN KeptBiases(n, sizes, L, seed)
                  ELSE [l \in 1..L |-> randos(sizes[l], seed, l, -1)],
       !.weights = IF keepNetworkIntact THEN n.weights
                   ELSE [l \in 1..L |->
                           [node \in 0..(sizes[l] - 1) |->
                              randos(sizes[l - 1], seed, l, node)]] ]

RECURSIVE Forward(_, _, _, _)
\* the layer loop of runInput from `layer` on; outs is this.outputs so far
Forward(n, layer, input, outs) ==
  IF layer > n.outputLayer THEN outs
  ELSE LET out == [node \in 0..(n.sizes[layer] - 1) |->
                     LET w == n.weights[layer][node]
                     IN Sigmoid(n.biases[layer][node]
                                + SumTo([k \in DOMAIN w |-> Mul(w[k], input[k])], Length(w)))]
       IN Forward(n, layer + 1, out, [l \in DOMAIN outs \cup {layer} |->
                                        IF l = layer THEN out ELSE outs[l]])

runInput(n, input) ==
  [n EXCEPT !.outputs = Forward(n, 1, input,
                                [l \in DOMAIN n.outputs \cup {0} |->
                                   IF l = 0 THEN input ELSE n.outputs[l]])]

\* the value runInput returns
runOutput(n) == n.outputs[n.outputLayer]

RECURSIVE Backward(_, _, _, _, _)
\* the layer loop of calculateDeltas from `layer` down
Backward(n, layer, target, errs, dels) ==
  IF layer < 0 THEN [errors |-> errs, deltas |-> dels]
  ELSE LET e == [node \in 0..(n.sizes[layer] - 1) |->
                   IF layer = n.outputLayer
                   THEN target[node] - n.outputs[layer][node]
                   ELSE SumTo([k \in DOMAIN dels[layer + 1] |->
                                 Mul(dels[layer + 1][k], n.weights[layer + 1][k][node])],
                              Length(dels[layer + 1]))]
           d == [node \in 0..(n.sizes[layer] - 1) |->
                   Mul(Mul(e[node], n.outputs[layer][node]), One - n.outputs[layer][node])]
       IN Backward(n, layer - 1, target,
                   [errs EXCEPT ![layer] = e], [dels EXCEPT ![layer] = d])

calculateDeltas(n, target) ==
  CHOOSE m \in { [n EXCEPT !.errors = r.errors, !.deltas = r.deltas] :
                   r \in {Backward(n, n.outputLayer, target, n.errors, n.deltas)} } : TRUE

\* the change adjustWeights computes for weights[layer][node][k]
\* a change that forgets the stored change of the previous step
ChangeWithoutMomentum(n, learningRate, layer, node, k) ==
  Mul(Mul(learningRate, n.deltas[layer][node]), n.outputs[layer - 1][k])

Change(n, learningRate, layer, node, k) ==
  Mul(Mul(learningRate, n.deltas[layer][node]), n.outputs[layer - 1][k])
    + Mul(n.momentum, n.changes[layer][node][k])

adjustWeights(n, learningRate) ==
  LET ch == [l \in 1..n.outputLayer |->
               [node \in 0..(n.sizes[l] - 1) |->
                  [k \in DOMAIN n.outputs[l - 1] |-> Change(n, learningRate, l, node, k)]]]
  IN [n EXCEPT
       !.changes = ch,
       !.weights = [l \in DOMAIN n.weights |->
                      IF l \in 1..n.outputLayer
                      THEN [node \in DOMAIN n.weights[l] |->
                              IF node < n.sizes[l]
                              THEN [k \in DOMAIN n.weights[l][node] |->
                                      IF k \in DOMAIN ch[l][node]
                                      THEN n.weights[l][node][k] + ch[l][node][k]
                                      ELSE n.weights[l][node][k]]
                              ELSE n.weights[l][node]]
                      ELSE n.weights[l]],
       !.biases = [l \in DOMAIN n.biases |->
                     IF l \in 1..n.outputLayer
                     THEN [node \in DOMAIN n.biases[l] |->
                             IF node < n.sizes[l]
                             THEN n.biases[l][node] + Mul(learningRate, n.deltas[l][node])
                             ELSE n.biases[l][node]]
                     ELSE n.biases[l]] ]

\* trainPattern: the network after the call; its return value is patternError
trainPattern(n, input, target, learningRate) ==
  CHOOSE r \in { adjustWeights(d, OrElse(learningRate, n.learningRate)) :
                   d \in { calculateDeltas(f, target) : f \in {runInput(n, input)} } } : TRUE

patternError(n) == mse(n.errors[n.outputLayer])

(***************************************************************************)
(* Records of a dataset.  A dense vector has hash = FALSE and its numbers  *)
(* in arr; a keyed record has hash = TRUE and its <<key, value>> pairs in  *)
(* obj.  An example is [input, output]; a dataset is an array of examples. *)
(***************************************************************************)
Dense(seq) == [hash |-> FALSE, arr |-> Arr(seq), obj |-> <<>>]

Hash(pairs) == [hash |-> TRUE, arr |-> <<>>, obj |-> pairs]

Example(input, output) == [input |-> input, output |-> output]

(***************************************************************************)
(* lib/lookup.js (required at line 3).                                     *)
(***************************************************************************)
RECURSIVE AddKeys(_, _, _)
\* the keys of obj from position i on, appended to keys when not yet there
AddKeys(keys, obj, i) ==
  IF i > Len(obj) THEN keys
  ELSE AddKeys(IF \E p \in 1..Len(keys) : keys[p] = obj[i][1]
               THEN keys ELSE Append(keys, obj[i][1]), obj, i + 1)

RECURSIVE FirstSeen(_, _, _)
FirstSeen(keys, hashes, i) ==
  IF i >= Length(hashes) THEN keys
  ELSE FirstSeen(AddKeys(keys, hashes[i], 1), hashes, i + 1)

\* a table is an object from key to index
lookupFromHash(hash) == [i \in 1..Len(hash) |-> <<hash[i][1], i - 1>>]

buildLookup(hashes) ==
  LET keys == FirstSeen(<<>>, hashes, 0)
  IN lookupFromHash([i \in 1..Len(keys) |-> <<keys[i], 0>>])

\* position table[key] holds hash[key], 0 when the key is missing
toArray(table, hash) ==
  [p \in 0..(Len(table) - 1) |->
     LET key == table[p + 1][1]
     IN IF HasKey(hash, key) THEN Get(hash, key) ELSE 0]

\* the keyed record of a dense vector; a position the vector lacks is undefined
toHash(table, array) ==
  [i \in 1..Len(table) |->
     <<table[i][1], IF table[i][2] \in DOMAIN array THEN <<array[table[i][2]]>> ELSE <<>> >>]

(***************************************************************************)
(* formatData: the network (its tables may be built) and the encoded data. *)
(***************************************************************************)
\* an encoding that builds the table anew from every keyed dataset
formatInputRebuilding(n, data) ==
  IF data[0].input.hash
  THEN LET table == <<buildLookup([i \in DOMAIN data |-> data[i].input.obj])>>
       IN [net |-> [n EXCEPT !.inputLookup = table],
           data |-> [i \in DOMAIN data |->
                       [data[i] EXCEPT !.input =
                          [hash |-> FALSE, arr |-> toArray(table[1], data[i].input.obj),
                           obj |-> <<>>]]]]
  ELSE [net |-> n, data |-> data]

formatInput(n, data) ==
  IF data[0].input.hash
  THEN LET table == IF n.inputLookup = <<>>
                    THEN <<buildLookup([i \in DOMAIN data |-> data[i].input.obj])>>
                    ELSE n.inputLookup
       IN [net |-> [n EXCEPT !.inputLookup = table],
           data |-> [i \in DOMAIN data |->
                       [data[i] EXCEPT !.input =
                          [hash |-> FALSE, arr |-> toArray(table[1], data[i].input.obj),
                           obj |-> <<>>]]]]
  ELSE [net |-> n, data |-> data]

formatOutput(n, data) ==
  IF data[0].output.hash
  THEN LET table == IF n.outputLookup = <<>>
                    THEN <<buildLookup([i \in DOMAIN data |-> data[i].output.obj])>>
                    ELSE n.outputLookup
       IN [net |-> [n EXCEPT !.outputLookup = table],
           data |-> [i \in DOMAIN data |->
                       [data[i] EXCEPT !.output =
                          [hash |-> FALSE, arr |-> toArray(table[1], data[i].output.obj),
                           obj |-> <<>>]]]]
  ELSE [net |-> n, data |-> data]

formatData(n, data) ==
  LET f == formatInput(n, data)
  IN formatOutput(f.net, f.data)

(***************************************************************************)
(* train.  A call is held as a run [net, frame]: frame holds the locals of *)
(* train (data, the options after defaulting, i, j, sum, error), the       *)
(* position pc, what the hooks were handed at the end of the last epoch,   *)
(* the examples trainPattern was called on in this epoch, and the number   *)
(* of epochs ended.                                                        *)
(***************************************************************************)
NoFrame ==
  [pc |-> "idle", data |-> <<>>, iterations |-> 0, errorThresh |-> 0,
   log |-> FALSE, logPeriod |-> 0, learningRate |-> 0, callback |-> FALSE,
   callbackPeriod |-> 0, i |-> 0, j |-> 0, sum |-> 0, error |-> 0,
   logged |-> <<>>, called |-> <<>>, patterns |-> <<>>, epochs |-> 0]

\* the topology train derives from the encoded data
trainSizes(n, data) ==
  LET inputSize == Length(data[0].input.arr)
      outputSize == Length(data[0].output.arr)
      hidden == IF n.hiddenSizes = <<>>
                THEN <<Max2(MinHiddenSize, inputSize \div 2)>>
                ELSE n.hiddenSizes[1]
  IN Arr(<<inputSize>> \o hidden \o <<outputSize>>)

\* lines 126-153: up to the first test of the loop condition
trainBegin(n, rawData, options, seed) ==
  LET f == formatData(n, rawData)
      learningRate == OrElse(options.learningRate, OrElse(f.net.learningRate, DefaultLearningRate))
  IN [net |-> initialize(f.net, trainSizes(f.net, f.data), options.keepNetworkIntact, seed),
      frame |-> [pc |-> "loop",
                 data |-> f.data,
                 iterations |-> OrElse(options.iterations, DefaultIterations),
                 errorThresh |-> OrElse(options.errorThresh, DefaultErrorThresh),
                 log |-> options.log,
                 logPeriod |-> OrElse(options.logPeriod, DefaultLogPeriod),
                 learningRate |-> learningRate,
                 callback |-> options.callback,
                 callbackPeriod |-> OrElse(options.callbackPeriod, DefaultCallbackPeriod),
                 i |-> 0, j |-> 0, sum |-> 0, error |-> One,
                 logged |-> <<>>, called |-> <<>>, patterns |-> <<>>, epochs |-> 0]]

\* the condition of the epoch loop (line 154)
\* a loop condition that allows one epoch more
loopConditionInclusive(fr) == fr.i <= fr.iterations /\ fr.error > fr.errorThresh

loopCondition(fr) == fr.i < fr.iterations /\ fr.error > fr.errorThresh

\* one turn of the inner loop (lines 156-159)
trainExample(r) ==
  LET ex == r.frame.data[r.frame.j]
  IN CHOOSE x \in
       { [net |-> n,
          frame |-> [r.frame EXCEPT !.sum = @ + patternError(n),
                                    !.j = @ + 1,
                                    !.patterns = Append(@, r.frame.j)]] :
         n \in {trainPattern(r.net, ex.input.arr, ex.output.arr, r.frame.learningRate)} } : TRUE

\* the end of an epoch (lines 160-168): the mean error, the hooks, i++
epochError(fr) == fr.sum \div Length(fr.data)

\* an end of epoch whose callback branch skips the coming epoch
epochEndSkipping(r) ==
  LET fr == r.frame
      error == epochError(fr)
      fires == fr.callback /\ fr.i % fr.callbackPeriod = 0
  IN [net |-> r.net,
      frame |-> [fr EXCEPT
                   !.error = error,
                   !.logged = IF fr.log /\ fr.i % fr.logPeriod = 0
                              THEN <<[error |-> error, iterations |-> fr.i]>> ELSE <<>>,
                   !.called = IF fires
                              THEN <<[error |-> error, iterations |-> fr.i]>> ELSE <<>>,
                   !.i = IF fires THEN @ + 2 ELSE @ + 1,
                   !.j = 0, !.sum = 0, !.patterns = <<>>,
                   !.epochs = @ + 1]]

epochEnd(r) ==
  LET fr == r.frame
      error == epochError(fr)
  IN [net |-> r.net,
      frame |-> [fr EXCEPT
                   !.error = error,
                   !.logged = IF fr.log /\ fr.i % fr.logPeriod = 0
                              THEN <<[error |-> error, iterations |-> fr.i]>> ELSE <<>>,
                   !.called = IF fr.callback /\ fr.i % fr.callbackPeriod = 0
                              THEN <<[error |-> error, iterations |-> fr.i]>> ELSE <<>>,
                   !.i = @ + 1, !.j = 0, !.sum = 0, !.patterns = <<>>,
                   !.epochs = @ + 1]]

\* the value train returns (lines 170-173)
trainResult(fr) == [error |-> fr.error, iterations |-> fr.i]

\* a run in the loop takes its next step; a run that has left it stays
stepRun(r) ==
  IF r.frame.pc # "loop" THEN r
  ELSE IF r.frame.j = 0 /\ ~loopCondition(r.frame)
       THEN [r EXCEPT !.frame.pc = "idle"]
  ELSE IF r.frame.j < Length(r.frame.data) THEN trainExample(r)
  ELSE epochEnd(r)

(***************************************************************************)
(* run.  A result that may hold undefined or NaN holds each number v as    *)
(* <<v>> and undefined / NaN as <<>>.                                      *)
(***************************************************************************)
runEncode(n, input) ==
  IF n.inputLookup # <<>> THEN toArray(n.inputLookup[1], input.obj) ELSE input.arr

\* the network after run(input), and the value run returns
run(n, input) ==
  CHOOSE r \in
    { [net |-> m,
       output |-> IF m.outputLookup # <<>>
                  THEN [hash |-> TRUE, arr |-> <<>>,
                        obj |-> toHash(m.outputLookup[1], runOutput(m))]
                  ELSE [hash |-> FALSE, arr |-> runOutput(m), obj |-> <<>>]] :
      m \in {runInput(n, runEncode(n, input))} } : TRUE

(***************************************************************************)
(* test.  Counts and indices are plain integers; the labels of the binary  *)
(* branch are the numbers 0 and 1, the labels of the other branch are      *)
(* indices.  labels holds the locals output[0], actual, expected and       *)
(* target of each turn of the loop.                                        *)
(***************************************************************************)
max(values) == CHOOSE v \in {values[i] : i \in DOMAIN values} :
                 \A i \in DOMAIN values : values[i] <= v

indexOf(values, v) == CHOOSE i \in DOMAIN values :
                        values[i] = v /\ \A k \in DOMAIN values : values[k] = v => i <= k

\* lines 311-319
\* a classification whose threshold is inclusive
classifyInclusive(n, output, target, isBinary) ==
  IF isBinary
  THEN [actual |-> IF output[0] >= n.binaryThresh THEN One ELSE 0, expected |-> target[0]]
  ELSE [actual |-> indexOf(output, max(output)), expected |-> indexOf(target, max(target))]

classify(n, output, target, isBinary) ==
  IF isBinary
  THEN [actual |-> IF output[0] > n.binaryThresh THEN One ELSE 0, expected |-> target[0]]
  ELSE [actual |-> indexOf(output, max(output)), expected |-> indexOf(target, max(target))]

\* a quotient that reports 0 where the divisor is 0
RatioGuarded(a, b) == IF b = 0 THEN <<0>> ELSE <<(a * One) \div b>>

\* a / b of two counts
Ratio(a, b) == IF b = 0 THEN (IF a = 0 THEN <<>> ELSE <<a, 0>>) ELSE <<(a * One) \div b>>

\* one turn of the loop of test (lines 307-349)
testExample(acc, ex, isBinary) ==
  CHOOSE r \in
    { LET output == runOutput(m)
          target == ex.output.arr
      IN [net |-> m,
          sum |-> acc.sum + mse([i \in DOMAIN output |-> target[i] - output[i]]),
          misclasses |-> IF c.actual # c.expected
                         THEN Append(acc.misclasses,
                                     [input |-> ex.input, output |-> ex.output,
                                      actual |-> c.actual, expected |-> c.expected])
                         ELSE acc.misclasses,
          trueNeg |-> acc.trueNeg
                        + (IF isBinary /\ c.actual = 0 /\ c.expected = 0 THEN 1 ELSE 0),
          truePos |-> acc.truePos
                        + (IF isBinary /\ c.actual = One /\ c.expected = One THEN 1 ELSE 0),
          falseNeg |-> acc.falseNeg
                        + (IF isBinary /\ c.actual = 0 /\ c.expected = One THEN 1 ELSE 0),
          falsePos |-> acc.falsePos
                        + (IF isBinary /\ c.actual = One /\ c.expected = 0 THEN 1 ELSE 0),
          labels |-> Append(acc.labels,
                            [activation |-> output[0], actual |-> c.actual,
                             expected |-> c.expected, target |-> target])] :
      m \in {runInput(acc.net, ex.input.arr)},
      c \in {classify(acc.net, runOutput(runInput(acc.net, ex.input.arr)),
                      ex.output.arr, isBinary)} } : TRUE

RECURSIVE testLoop(_, _, _, _)
testLoop(acc, data, i, isBinary) ==
  IF i >= Length(data) THEN acc
  ELSE CHOOSE r \in { testLoop(a, data, i + 1, isBinary) :
                       a \in {testExample(acc, data[i], isBinary)} } : TRUE

\* the network after test(data), and the statistics test returns
test(n, rawData) ==
  CHOOSE r \in
    { LET isBinary == Length(f.data[0].output.arr) = 1
          acc == testLoop([net |-> f.net, sum |-> 0, misclasses |-> <<>>, trueNeg |-> 0,
                           truePos |-> 0, falseNeg |-> 0, falsePos |-> 0, labels |-> <<>>],
                          f.data, 0, isBinary)
      IN CHOOSE s \in
           { [net |-> a.net,
              stats |-> [error |-> a.sum \div Length(f.data),
                         misclasses |-> a.misclasses,
                         isBinary |-> isBinary,
                         trueNeg |-> a.trueNeg, truePos |-> a.truePos,
                         falseNeg |-> a.falseNeg, falsePos |-> a.falsePos,
                         total |-> Length(f.data),
                         precision |-> Ratio(a.truePos, a.truePos + a.falsePos),
                         recall |-> Ratio(a.truePos, a.truePos + a.falseNeg),
                         accuracy |-> Ratio(a.trueNeg + a.truePos, Length(f.data)),
                         labels |-> a.labels,
                         data |-> f.data]] : a \in {acc} } : TRUE :
      f \in {formatData(n, rawData)} } : TRUE

(***************************************************************************)
(* toJSON.  The document is [layers, outputLookup, inputLookup]; a layer   *)
(* is an object from node name to [bias, weights], weights an object from  *)
(* the names of the layer before to numbers.  A property set to undefined  *)
(* holds <<>>.                                                             *)
(***************************************************************************)
range(start, end) == [i \in 1..(end - start) |-> start + i - 1]

\* the node names of a layer (lines 413-423)
layerNodes(n, layer) ==
  IF layer = 0 /\ n.inputLookup # <<>> THEN Keys(n.inputLookup[1])
  ELSE IF layer = n.outputLayer /\ n.outputLookup # <<>> THEN Keys(n.outputLookup[1])
  ELSE LET r == range(0, n.sizes[layer]) IN [i \in 1..Len(r) |-> IntKey(r[i])]

\* this.weights[layer][j] is read for every name of the layer: undefined[index] throws
toJSONThrows(n) ==
  \E layer \in 1..n.outputLayer :
    /\ Len(layerNodes(n, layer - 1)) > 0
    /\ \E j \in 1..Len(layerNodes(n, layer)) : (j - 1) \notin DOMAIN n.weights[layer]

\* layers[layer][node] for the j-th name (lines 427-439)
exportNode(n, layer, j) ==
  IF layer = 0 THEN [bias |-> <<>>, weights |-> <<>>]
  ELSE LET before == layerNodes(n, layer - 1)
       IN [bias |-> IF j \in DOMAIN n.biases[layer] THEN <<n.biases[layer][j]>> ELSE <<>>,
           weights |->
             [p \in 1..Len(before) |->
                LET k == before[p]
                    index == IF layer = 1 /\ n.inputLookup # <<>>
                             THEN Get(n.inputLookup[1], k)
                             ELSE KeyIndex(k)
                IN <<k, IF index \in DOMAIN n.weights[layer][j]
                        THEN <<n.weights[layer][j][index]>> ELSE <<>> >>]]

toJSON(n) ==
  [layers |-> [layer \in 0..n.outputLayer |->
                 LET nodes == layerNodes(n, layer)
                 IN [p \in 1..Len(nodes) |-> <<nodes[p], exportNode(n, layer, p - 1)>>]],
   outputLookup |-> n.outputLookup # <<>>,
   inputLookup |-> n.inputLookup # <<>>]

(***************************************************************************)
(* fromJSON, on a new NeuralNetwork.  The arrays it fills hold what the    *)
(* document holds: <<v>> for a number, <<>> for undefined.                 *)
(***************************************************************************)
\* toArray(values) of line 589 on an object: its values in key order
valuesArray(obj) == [i \in 0..(Len(obj) - 1) |-> obj[i + 1][2]]

fromJSON(n, json) ==
  LET size == Length(json.layers)
      L == size - 1
  IN [n EXCEPT
       !.outputLayer = L,
       !.allocated = TRUE,
       !.sizes = [i \in 0..L |-> Len(json.layers[i])],
       !.weights = [i \in 0..L |->
                      [j \in 0..(Len(json.layers[i]) - 1) |->
                         valuesArray(json.layers[i][j + 1][2].weights)]],
       !.biases = [i \in 0..L |->
                     [j \in 0..(Len(json.layers[i]) - 1) |-> json.layers[i][j + 1][2].bias]],
       !.outputs = [i \in 0..L |-> <<>>],
       !.inputLookup = IF L >= 0 /\ (~HasKey(json.layers[0], "0") \/ json.inputLookup)
                       THEN <<lookupFromHash(json.layers[0])>> ELSE n.inputLookup,
       !.outputLookup = IF L >= 1 /\ (~HasKey(json.layers[L], "0") \/ json.outputLookup)
                        THEN <<lookupFromHash(json.layers[L])>> ELSE n.outputLookup]

(***************************************************************************)
(* toFunction.  The function it returns is held as the document its source *)
(* text embeds: JSON.stringify drops the properties that are undefined.    *)
(***************************************************************************)
RECURSIVE Defined(_, _)
\* the pairs of obj from position i on whose value is not undefined
Defined(obj, i) ==
  IF i > Len(obj) THEN <<>>
  ELSE (IF obj[i][2] = <<>> THEN <<>> ELSE <<obj[i]>>) \o Defined(obj, i + 1)

stringify(json) ==
  [json EXCEPT !.layers =
     [layer \in DOMAIN json.layers |->
        [p \in 1..Len(json.layers[layer]) |->
           <<json.layers[layer][p][1],
             [json.layers[layer][p][2] EXCEPT !.weights = Defined(@, 1)]>>]]]

toFunction(n) == stringify(toJSON(n))

\* input[iid] of an object of results
objProp(obj, key) == IF HasKey(obj, key) THEN Get(obj, key) ELSE <<>>

\* input[iid] of the argument: a dense vector or a keyed record
Prop(rec, key) ==
  IF rec.hash THEN (IF HasKey(rec.obj, key) THEN <<Get(rec.obj, key)>> ELSE <<>>)
  ELSE IF IsIntKey(key) /\ KeyIndex(key) \in DOMAIN rec.arr
       THEN <<rec.arr[KeyIndex(key)]>> ELSE <<>>

RECURSIVE nodeSum(_, _, _, _)
\* sum += node.weights[iid] * input[iid] over the names from position p on
nodeSum(sum, weights, input, p) ==
  IF p > Len(weights) THEN sum
  ELSE LET x == objProp(input, weights[p][1])
       IN nodeSum(IF sum = <<>> \/ x = <<>> \/ weights[p][2] = <<>> THEN <<>>
                  ELSE <<sum[1] + Mul(weights[p][2][1], x[1])>>,
                  weights, input, p + 1)

RECURSIVE compiledLayers(_, _, _)
\* the loop of the generated function from layer i on; input is an object of results
compiledLayers(fn, i, input) ==
  IF i >= Length(fn.layers) THEN input
  ELSE CHOOSE r \in
         { compiledLayers(fn, i + 1, output) :
           output \in { [p \in 1..Len(fn.layers[i]) |->
                          LET node == fn.layers[i][p][2]
                              sum == nodeSum(node.bias, node.weights, input, 1)
                          IN <<fn.layers[i][p][1],
                               IF sum = <<>> THEN <<>> ELSE <<Sigmoid(sum[1])>> >>] } } : TRUE

\* the argument as the object the generated function reads it as
argumentObject(fn, rec) ==
  [p \in 1..Len(fn.layers[0]) |-> <<fn.layers[0][p][1], Prop(rec, fn.layers[0][p][1])>>]

\* the object the generated function returns (for a document of two layers or more)
compiled(fn, rec) == compiledLayers(fn, 1, argumentObject(fn, rec))

(***************************************************************************)
(* The inputs the operations are called with.                              *)
(***************************************************************************)
NoOptions == [learningRate |-> 0, momentum |-> 0, hiddenLayers |-> <<>>, binaryThresh |-> 0]

CtorOptions ==
  { NoOptions,
    [NoOptions EXCEPT !.hiddenLayers = <<<<2>>>>, !.learningRate = 500, !.binaryThresh = 400] }

DenseBin == Arr(<<Example(Dense(<<0, One>>), Dense(<<One>>)),
                  Example(Dense(<<One, One>>), Dense(<<0>>))>>)

DenseBoth == Arr(<<Example(Dense(<<0, One>>), Dense(<<One>>)),
                   Example(Dense(<<One, 0>>), Dense(<<One>>))>>)

Dense3 == Arr(<<Example(Dense(<<One, 0, One>>), Dense(<<One>>))>>)

DenseHalf == Arr(<<Example(Dense(<<One, 0>>), Dense(<<One \div 2>>))>>)

KeyedAB == Arr(<<Example(Hash(<< <<"a", One>> >>), Hash(<< <<"x", One>> >>)),
                 Example(Hash(<< <<"b", One>> >>), Hash(<< <<"y", One>> >>))>>)

KeyedAC == Arr(<<Example(Hash(<< <<"a", One>>, <<"c", One>> >>), Hash(<< <<"y", One>> >>))>>)

KeyedBin == Arr(<<Example(Hash(<< <<"b", One>>, <<"a", One>> >>), Dense(<<0>>))>>)

Datasets == {DenseBoth, Dense3, KeyedAB, KeyedAC, KeyedBin}

TestSets == Datasets \cup {DenseBin, DenseHalf}

RunInputs ==
  { Dense(<<One, 0>>), Dense(<<0, One, One>>),
    Hash(<< <<"a", One>>, <<"b", One>> >>),
    Hash(<< <<"a", One>> >>),
    Hash(<< <<"b", One>>, <<"z", One>>, <<"a", One>> >>) }

TrainDefaults ==
  [iterations |-> 0, errorThresh |-> 0, log |-> FALSE, logPeriod |-> 0, learningRate |-> 0,
   callback |-> FALSE, callbackPeriod |-> 0, keepNetworkIntact |-> FALSE]

TrainOptions ==
  { [TrainDefaults EXCEPT !.iterations = 4, !.errorThresh = 200, !.callback = TRUE,
                          !.callbackPeriod = 2],
    [TrainDefaults EXCEPT !.iterations = 3, !.errorThresh = 200, !.log = TRUE,
                          !.logPeriod = 2, !.callback = TRUE],
    [TrainDefaults EXCEPT !.errorThresh = 400, !.callback = TRUE, !.callbackPeriod = 1],
    [TrainDefaults EXCEPT !.iterations = 1, !.learningRate = 500, !.keepNetworkIntact = TRUE,
                          !.log = TRUE],
    [TrainDefaults EXCEPT !.iterations = 2, !.errorThresh = One] }

Seeds == {0, 1}

Topologies ==
  { Arr(<<2, 3, 1>>), Arr(<<3, 3, 1>>), Arr(<<2, 1>>), Arr(<<3>>), Arr(<<2, 0, 1>>), <<>> }

\* the options of the run train is compared with: the same, without hooks
Unhooked(options) ==
  [options EXCEPT !.log = FALSE, !.logPeriod = 0, !.callback = FALSE, !.callbackPeriod = 0]

(***************************************************************************)
(* The state.                                                              *)
(***************************************************************************)
VARIABLES
  net,      \* the NeuralNetwork object
  frame,    \* the locals of the train call in progress
  ret,      \* what the last train call returned
  twin,     \* the same train call on the same network, made without hooks
  last,     \* the last public method called, with its arguments
  result,   \* what the caller holds of test, run, toJSON, fromJSON, toFunction
  ops       \* the number of initialize and train calls made

vars == <<net, frame, ret, twin, last, result, ops>>

NoResult == [error |-> 0, iterations |-> -1]

Nothing == [kind |-> "none", value |-> <<>>]

Called(op, keep, inHash, outHash) ==
  [op |-> op, keep |-> keep, inHash |-> inHash, outHash |-> outHash]

Init ==
  /\ net \in {NeuralNetwork(o) : o \in CtorOptions}
  /\ frame = NoFrame
  /\ ret = NoResult
  /\ twin = [net |-> net, frame |-> NoFrame, ret |-> NoResult]
  /\ last = Called("new", FALSE, FALSE, FALSE)
  /\ result = Nothing
  /\ ops = 0

\* no call is in progress, and the caller has not yet gone on to use the network
Idle == frame.pc = "idle" /\ result.kind = "none"

\* initialize reads this.biases[layer] and this.weights[layer] when it keeps them:
\* a caller keeps the parameters of a network that has them, for the same sizes
CanKeep(n, sizes) == n.allocated /\ n.sizes = sizes

Initialize(sizes, keep, seed) ==
  /\ Idle
  /\ ops < MaxOps
  /\ keep => CanKeep(net, sizes)
  /\ net' = initialize(net, sizes, keep, seed)
  /\ last' = Called("initialize", keep, FALSE, FALSE)
  /\ ops' = ops + 1
  /\ UNCHANGED <<frame, ret, twin, result>>

TrainStart(data, options, seed) ==
  /\ Idle
  /\ ops < MaxOps
  /\ \E f \in {formatData(net, data)} :
       options.keepNetworkIntact => CanKeep(net, trainSizes(f.net, f.data))
  /\ \E r \in {trainBegin(net, data, options, seed)},
        t \in {trainBegin(net, data, Unhooked(options), seed)} :
        /\ net' = r.net
        /\ frame' = r.frame
        /\ twin' = [net |-> t.net, frame |-> t.frame, ret |-> ret]
  /\ last' = Called("train", options.keepNetworkIntact, data[0].input.hash, data[0].output.hash)
  /\ ops' = ops + 1
  /\ UNCHANGED <<ret, result>>

\* the twin takes the step its own state asks for
TwinStep ==
  \E t \in {stepRun([net |-> twin.net, frame |-> twin.frame])} :
    twin' = [net |-> t.net, frame |-> t.frame,
             ret |-> IF twin.frame.pc = "loop" /\ t.frame.pc = "idle"
                     THEN trainResult(t.frame) ELSE twin.ret]

TrainPattern ==
  /\ frame.pc = "loop"
  /\ frame.j > 0 \/ loopCondition(frame)
  /\ frame.j < Length(frame.data)
  /\ \E r \in {trainExample([net |-> net, frame |-> frame])} :
       net' = r.net /\ frame' = r.frame
  /\ TwinStep
  /\ UNCHANGED <<ret, last, result, ops>>

TrainEpochEnd ==
  /\ frame.pc = "loop"
  /\ frame.j > 0
  /\ frame.j >= Length(frame.data)
  /\ \E r \in {epochEnd([net |-> net, frame |-> frame])} :
       net' = r.net /\ frame' = r.frame
  /\ TwinStep
  /\ UNCHANGED <<ret, last, result, ops>>

TrainReturn ==
  /\ frame.pc = "loop"
  /\ frame.j = 0
  /\ ~loopCondition(frame)
  /\ ret' = trainResult(frame)
  /\ frame' = [frame EXCEPT !.pc = "idle"]
  /\ TwinStep
  /\ UNCHANGED <<net, last, result, ops>>

\* runInput and toJSON read the arrays initialize or fromJSON fill
Usable(n) == n.allocated /\ n.outputLayer >= 1

\* the contract of runInput: a vector of exactly sizes[0] numbers (and a target of
\* sizes[outputLayer] numbers)
Fits(n, data) ==
  \A i \in DOMAIN data :
    /\ Length(data[i].input.arr) = n.sizes[0]
    /\ Length(data[i].output.arr) = n.sizes[n.outputLayer]

Test(data) ==
  /\ Idle
  /\ Usable(net)
  /\ \E f \in {formatData(net, data)} : Fits(f.net, f.data)
  /\ \E r \in {test(net, data)} :
       /\ net' = r.net
       /\ result' = [kind |-> "stats", value |-> r.stats]
  /\ last' = Called("test", FALSE, data[0].input.hash, data[0].output.hash)
  /\ UNCHANGED <<frame, ret, twin, ops>>

Run(input) ==
  /\ Idle
  /\ Usable(net)
  /\ input.hash = (net.inputLookup # <<>>)
  /\ Length(runEncode(net, input)) = net.sizes[0]
  /\ \E r \in {run(net, input)} :
       /\ net' = r.net
       /\ result' = [kind |-> "output", value |-> [input |-> input, output |-> r.output]]
  /\ last' = Called("run", FALSE, FALSE, FALSE)
  /\ UNCHANGED <<frame, ret, twin, ops>>

ToJSON ==
  /\ Idle
  /\ net.allocated
  /\ result' = IF toJSONThrows(net) THEN [kind |-> "threw", value |-> <<>>]
               ELSE [kind |-> "json", value |-> toJSON(net)]
  /\ last' = Called("toJSON", FALSE, FALSE, FALSE)
  /\ UNCHANGED <<net, frame, ret, twin, ops>>

\* new NeuralNetwork().fromJSON(json), json being what toJSON returned
FromJSON ==
  /\ frame.pc = "idle"
  /\ result.kind = "json"
  /\ result' = [kind |-> "network",
                value |-> fromJSON(NeuralNetwork(NoOptions), result.value)]
  /\ last' = Called("fromJSON", FALSE, FALSE, FALSE)
  /\ UNCHANGED <<net, frame, ret, twin, ops>>

ToFunction ==
  /\ Idle
  /\ net.allocated
  /\ result' = IF toJSONThrows(net) THEN [kind |-> "threw", value |-> <<>>]
               ELSE [kind |-> "function", value |-> toFunction(net)]
  /\ last' = Called("toFunction", FALSE, FALSE, FALSE)
  /\ UNCHANGED <<net, frame, ret, twin, ops>>

\* a call of the function toFunction returned
CallFunction(input) ==
  /\ frame.pc = "idle"
  /\ result.kind = "function"
  /\ Length(result.value.layers) >= 2
  /\ input.hash = result.value.inputLookup
  /\ ~input.hash => Length(input.arr) = Len(result.value.layers[0])
  /\ result' = [kind |-> "called",
                value |-> [input |-> input, output |-> compiled(result.value, input)]]
  /\ last' = Called("call", FALSE, FALSE, FALSE)
  /\ UNCHANGED <<net, frame, ret, twin, ops>>

TrainLoop == TrainPattern \/ TrainEpochEnd \/ TrainReturn

Next ==
  \/ \E sizes \in Topologies, keep \in BOOLEAN, seed \in Seeds : Initialize(sizes, keep, seed)
  \/ \E data \in Datasets, options \in TrainOptions, seed \in Seeds :
       TrainStart(data, options, seed)
  \/ TrainPattern
  \/ TrainEpochEnd
  \/ TrainReturn
  \/ \E data \in TestSets : Test(data)
  \/ \E input \in RunInputs : Run(input)
  \/ ToJSON
  \/ FromJSON
  \/ ToFunction
  \/ \E input \in RunInputs : CallFunction(input)

Spec == Init /\ [][Next]_vars

TrainNext ==
  \/ \E data \in Datasets, options \in TrainOptions, seed \in Seeds :
       TrainStart(data, options, seed)
  \/ TrainPattern
  \/ TrainEpochEnd
  \/ TrainReturn

\* train runs to completion once called: the code is synchronous
TrainSpec == Init /\ [][TrainNext]_vars /\ WF_vars(TrainLoop)

(***************************************************************************)
(* The claims.                                                             *)
(***************************************************************************)
\* a step that is a whole call of initialize, or train up to its first trainPattern
KeepingCall ==
  /\ ops' = ops + 1
  /\ last'.op \in {"initialize", "train"}
  /\ last'.keep

\* C1: initialize(sizes, true) on a network that has weights and biases for the same
\* sizes leaves every weights[l][j][k] and every biases[l][j] as it was; so does
\* train(data, {keepNetworkIntact: true}) up to its first trainPattern call.
C1_KeepPreservesParameters ==
  [][KeepingCall => net'.weights = net.weights /\ net'.biases = net.biases]_vars

\* C7: initialize never completes normally with outputLayer < 1 or with a layer
\* of width zero.
C7_InitializeRejectsMalformed ==
  last.op = "initialize" =>
    /\ net.outputLayer >= 1
    /\ \A l \in DOMAIN net.sizes : net.sizes[l] > 0

\* the parameters of layers 1 .. L of a network fromJSON filled are those of n
SameParameters(loaded, n) ==
  /\ loaded.sizes = n.sizes
  /\ loaded.outputLayer = n.outputLayer
  /\ \A l \in 1..n.outputLayer :
       /\ DOMAIN loaded.biases[l] = DOMAIN n.biases[l]
       /\ \A j \in DOMAIN n.biases[l] : loaded.biases[l][j] = <<n.biases[l][j]>>
       /\ DOMAIN loaded.weights[l] = DOMAIN n.weights[l]
       /\ \A j \in DOMAIN n.weights[l] :
            /\ DOMAIN loaded.weights[l][j] = DOMAIN n.weights[l][j]
            /\ \A k \in DOMAIN n.weights[l][j] :
                 loaded.weights[l][j][k] = <<n.weights[l][j][k]>>

\* the invariant of a topology: L >= 1 and every size > 0
ValidTopology(n) == n.outputLayer >= 1 /\ \A l \in DOMAIN n.sizes : n.sizes[l] > 0

\* C2: for a network of valid topology, fromJSON(toJSON(net)) has the sizes, the
\* outputLayer, the biases and the weights of net, and a lookup table exactly where
\* net has one.
C2_RoundTrip ==
  result.kind = "network" /\ ValidTopology(net) =>
    /\ SameParameters(result.value, net)
    /\ (result.value.inputLookup # <<>>) = (net.inputLookup # <<>>)
    /\ (result.value.outputLookup # <<>>) = (net.outputLookup # <<>>)

\* what run returns, named as the generated function names its results
OutputObject(out) ==
  IF out.hash THEN out.obj
  ELSE [i \in 1..Length(out.arr) |-> <<IntKey(i - 1), <<out.arr[i - 1]>> >>]

\* C8: the function toFunction returns gives, on every input record, the values
\* run gives on the network it was made from.
C8_FunctionMimicsRun ==
  result.kind = "called" =>
    result.value.output = OutputObject(run(net, result.value.input).output)

\* C6 as stated: in test on a dataset of output width 1, actual = 1 if the activation
\* is >= binaryThresh and 0 otherwise, and expected = target[0].
C6_ThresholdInclusive ==
  result.kind = "stats" /\ result.value.isBinary =>
    \A p \in 1..Len(result.value.labels) :
      LET lb == result.value.labels[p]
      IN /\ lb.actual = (IF lb.activation >= net.binaryThresh THEN One ELSE 0)
         /\ lb.expected = lb.target[0]

\* C6 as amended: in test on a dataset of output width 1, actual = 1 if the
\* activation is > binaryThresh and 0 otherwise (an activation equal to the
\* threshold is classified 0), and expected = target[0].
C6_ThresholdExclusive ==
  result.kind = "stats" /\ result.value.isBinary =>
    \A p \in 1..Len(result.value.labels) :
      LET lb == result.value.labels[p]
      IN /\ lb.actual = (IF lb.activation > net.binaryThresh THEN One ELSE 0)
         /\ lb.expected = lb.target[0]

\* a test met an activation equal to the threshold, and one above it
C6_Witness ==
  /\ result.kind = "stats"
  /\ result.value.isBinary
  /\ \E p \in 1..Len(result.value.labels) :
       /\ result.value.labels[p].activation = net.binaryThresh
       /\ result.value.labels[p].actual = 0

\* the number of turns of the loop of test that gave these labels
Count(labels, actual, expected) ==
  Cardinality({p \in 1..Len(labels) :
                 labels[p].actual = actual /\ labels[p].expected = expected})

RECURSIVE Misclassified(_, _, _)
\* the examples from turn p on whose labels differ, with their labels
Misclassified(labels, data, p) ==
  IF p > Len(labels) THEN <<>>
  ELSE (IF labels[p].actual # labels[p].expected
        THEN <<[input |-> data[p - 1].input, output |-> data[p - 1].output,
                actual |-> labels[p].actual, expected |-> labels[p].expected]>>
        ELSE <<>>) \o Misclassified(labels, data, p + 1)

BinaryTargets(data) == \A i \in DOMAIN data : data[i].output.arr[0] \in {0, One}

\* C10: in test on a dataset of output width 1 whose targets are all 0 or 1, the four
\* counts are the counts of the four pairs of labels and add up to total, the number
\* of examples; accuracy = (truePos + trueNeg) / total; misclasses holds exactly the
\* falsePos + falseNeg examples whose labels differ, with their labels; precision
\* (recall) is NaN when truePos + falsePos (truePos + falseNeg) is 0.
C10_ConfusionCounts ==
  result.kind = "stats" /\ result.value.isBinary /\ BinaryTargets(result.value.data) =>
    LET s == result.value
    IN /\ s.total = Length(s.data)
       /\ Len(s.labels) = s.total
       /\ s.truePos = Count(s.labels, One, One)
       /\ s.trueNeg = Count(s.labels, 0, 0)
       /\ s.falsePos = Count(s.labels, One, 0)
       /\ s.falseNeg = Count(s.labels, 0, One)
       /\ s.truePos + s.trueNeg + s.falsePos + s.falseNeg = s.total
       /\ s.accuracy = <<((s.truePos + s.trueNeg) * One) \div s.total>>
       /\ s.misclasses = Misclassified(s.labels, s.data, 1)
       /\ Len(s.misclasses) = s.falsePos + s.falseNeg
       /\ s.truePos + s.falsePos = 0 => s.precision = <<>>
       /\ s.truePos + s.falsePos > 0 =>
            s.precision = <<(s.truePos * One) \div (s.truePos + s.falsePos)>>
       /\ s.truePos + s.falseNeg = 0 => s.recall = <<>>
       /\ s.truePos + s.falseNeg > 0 =>
            s.recall = <<(s.truePos * One) \div (s.truePos + s.falseNeg)>>

\* a test of two examples that predicted no positive and misclassified one example
C10_Witness ==
  /\ result.kind = "stats"
  /\ result.value.isBinary
  /\ BinaryTargets(result.value.data)
  /\ result.value.total = 2
  /\ result.value.precision = <<>>
  /\ result.value.falseNeg = 1
  /\ Len(result.value.misclasses) = 1

\* the encoded records of a dataset that was keyed are as wide as the table
WidthsFit(n, call, data) ==
  /\ call.inHash =>
       \A i \in DOMAIN data : Length(data[i].input.arr) = Len(n.inputLookup[1])
  /\ call.outHash =>
       \A i \in DOMAIN data : Length(data[i].output.arr) = Len(n.outputLookup[1])

\* C4: once inputLookup (outputLookup) is set, no step changes it; and every train
\* or test call on a keyed dataset encodes its records to the width of the table.
C4_LookupFrozen ==
  [][ /\ net.inputLookup # <<>> => net'.inputLookup = net.inputLookup
      /\ net.outputLookup # <<>> => net'.outputLookup = net.outputLookup
      /\ frame.pc = "idle" /\ frame'.pc = "loop" => WidthsFit(net', last', frame'.data)
      /\ result.kind = "none" /\ result'.kind = "stats" =>
           WidthsFit(net', last', result'.value.data) ]_vars

\* a second train call, on a dataset with the key "c" the frozen table lacks and
\* without its key "b"
C4_Witness ==
  /\ ops = 2
  /\ last.op = "train"
  /\ last.inHash
  /\ frame.pc = "loop"
  /\ net.inputLookup # <<>>
  /\ Keys(net.inputLookup[1]) = <<"a", "b">>
  /\ Length(frame.data) = 1
  /\ frame.data[0].input.arr = Arr(<<One, 0>>)

\* the steps of the loop of train
PatternStep == frame.pc = "loop" /\ frame'.pc = "loop" /\ frame'.j = frame.j + 1
EpochStep == frame.pc = "loop" /\ frame'.pc = "loop" /\ frame'.epochs = frame.epochs + 1
ReturnStep == frame.pc = "loop" /\ frame'.pc = "idle"

\* C3: train always terminates; it runs at most iterations epochs (options.iterations
\* or its default), each epoch training every example once in dataset order (the
\* example trained at a step is the one at the index equal to the number of examples
\* already trained in the epoch, and an epoch ends having trained all of them), the
\* epoch error being the mean of the examples' errors; it returns before iterations
\* epochs only when the epoch error is <= errorThresh; the returned iterations is the
\* number of epochs run and the returned error the error of the last epoch run.
C3_TrainTerminates ==
  /\ [](frame.epochs <= frame.iterations)
  /\ [][ /\ PatternStep =>
              /\ frame.j = Len(frame.patterns)
              /\ frame'.patterns = Append(frame.patterns, frame.j)
              /\ net'.outputs[0] = frame.data[frame.j].input.arr
              /\ frame'.sum = frame.sum + mse(net'.errors[net'.outputLayer])
         /\ EpochStep =>
              /\ frame.patterns = [p \in 1..Length(frame.data) |-> p - 1]
              /\ frame'.error = frame.sum \div Length(frame.data)
         /\ ReturnStep =>
              /\ frame.patterns = <<>>
              /\ ret'.iterations = frame.epochs
              /\ frame.epochs >= 1 => ret'.error = frame.error
              /\ frame.epochs < frame.iterations => frame.error <= frame.errorThresh ]_vars
  /\ (frame.pc = "loop" ~> frame.pc = "idle")

\* a train call of several examples that returned after some epochs, before iterations
C3_Witness ==
  /\ frame.pc = "idle"
  /\ last.op = "train"
  /\ Length(frame.data) >= 2
  /\ ret.iterations >= 2
  /\ ret.iterations < frame.iterations
  /\ ret.error <= frame.errorThresh

\* C5: a train run and the run of the same call without log and callback go through
\* the same trainPattern calls in step and have the same weights, biases, epoch error
\* and returned error and iterations at every step; the callback is invoked at the end
\* of exactly the epochs whose index i has i % callbackPeriod = 0, with the epoch's
\* mean error and i.
C5_HooksObservational ==
  /\ [](/\ twin.frame.pc = frame.pc
        /\ twin.frame.i = frame.i
        /\ twin.frame.j = frame.j
        /\ twin.frame.patterns = frame.patterns
        /\ twin.frame.epochs = frame.epochs
        /\ twin.frame.error = frame.error
        /\ twin.net.weights = net.weights
        /\ twin.net.biases = net.biases
        /\ twin.ret = ret)
  /\ [][ EpochStep =>
           frame'.called = IF frame.callback /\ frame.i % frame.callbackPeriod = 0
                           THEN <<[error |-> frame.sum \div Length(frame.data),
                                   iterations |-> frame.i]>>
                           ELSE <<>> ]_vars

\* a train call with a callback of period 2 has ended its third epoch, where the
\* callback was invoked, the twin having no hooks
C5_Witness ==
  /\ frame.pc = "loop"
  /\ frame.callback
  /\ ~twin.frame.callback
  /\ frame.callbackPeriod = 2
  /\ frame.i = 3
  /\ frame.j = 0
  /\ frame.called # <<>>

\* every change is 0
Zeroed(changes) ==
  \A l \in DOMAIN changes : \A j \in DOMAIN changes[l] : \A k \in DOMAIN changes[l][j] :
    changes[l][j][k] = 0

\* C9: every step of train on an example stores in changes[l][j][k]
\* learningRate * deltas[l][j] * outputs[l-1][k] + momentum * c, c being the value
\* stored there before the step, and adds it to weights[l][j][k]; no other step
\* changes the store, but the initialize of an initialize or train call, which
\* leaves every change 0.
C9_MomentumPersists ==
  [][ /\ PatternStep =>
           \A l \in 1..net.outputLayer : \A j \in 0..(net.sizes[l] - 1) :
             \A k \in 0..(net.sizes[l - 1] - 1) :
               /\ net'.changes[l][j][k] =
                    Mul(Mul(frame.learningRate, net'.deltas[l][j]), net'.outputs[l - 1][k])
                      + Mul(net.momentum, net.changes[l][j][k])
               /\ net'.weights[l][j][k] = net.weights[l][j][k] + net'.changes[l][j][k]
      /\ ~PatternStep /\ net'.changes # net.changes =>
           /\ ops' = ops + 1
           /\ last'.op \in {"initialize", "train"}
           /\ Zeroed(net'.changes) ]_vars

\* in the second epoch of a train call, a change carries a part of the change stored
\* by the epoch before
C9_Witness ==
  /\ frame.pc = "loop"
  /\ frame.i >= 1
  /\ frame.j >= 1
  /\ \E l \in 1..net.outputLayer : \E j \in 0..(net.sizes[l] - 1) :
       \E k \in 0..(net.sizes[l - 1] - 1) :
         net.changes[l][j][k] #
           Mul(Mul(frame.learningRate, net.deltas[l][j]), net.outputs[l - 1][k])

====
